---- MODULE Spec2Model ----
(***************************************************************************)
(* A model of enzian_lib.livekit:                                          *)
(*   - play_audio_file (livekit_utils.py), the adapter that reads a .wav   *)
(*     file chunk by chunk and feeds rtc.AudioSource;                      *)
(*   - Message / HANGUP / publish (messaging.py), the JSON event envelope. *)
(* The SDK objects (room.local_participant, rtc.AudioSource) and the wave  *)
(* and numpy libraries are the environment: each awaited SDK call may      *)
(* succeed, raise an Exception, or be cancelled (asyncio.CancelledError, a *)
(* BaseException on the Python >= 3.12 that setup.py requires).            *)
(***************************************************************************)
EXTENDS Integers, Sequences, FiniteSets, TLC

VARIABLES
    pc,        \* position of the play_audio_file coroutine
    file,      \* the .wav file on disk: header fields and data bytes present
    handle,    \* wav_file: "unopened" | "open" | "closed"
    pos,       \* bytes of the data chunk consumed by readframes so far
    iter,      \* iterations of the for loop completed
    calls,     \* the SDK calls made so far, in order
    logged,    \* the logger.error calls of the two except clauses
    outcome,   \* how the call ended: "running" | "return" | the exception raised
    mpc,       \* position of the messaging caller
    msg,       \* the Message instance last constructed (NoMsg before)
    pubs,      \* the publish(room, msg) calls made so far, in order
    sends      \* the publish_data calls made so far, in order

vars == <<pc, file, handle, pos, iter, calls, logged, outcome, mpc, msg, pubs, sends>>

playVars == <<pc, file, handle, pos, iter, calls, logged, outcome>>
msgVars == <<mpc, msg, pubs, sends>>

(***************************************************************************)
(* Bounds of the model.                                                    *)
(***************************************************************************)
MaxChannels == 2
MaxRate == 2
MaxSampWidth == 4
MaxBytes == 8
MaxTime == 1
MaxPublish == 2

Min(a, b) == IF a <= b THEN a ELSE b

(***************************************************************************)
(* The .wav file.  declared is the size the data chunk's header states,    *)
(* avail the data bytes really in the file (fewer when it was truncated).  *)
(***************************************************************************)
Files ==
    { f \in [nchannels : 0..MaxChannels, framerate : 0..MaxRate,
             sampwidth : 0..MaxSampWidth, declared : 0..MaxBytes,
             avail : 0..MaxBytes] : f.avail <= f.declared }

\* wave.open raises wave.Error on a header without channels or sample width
HeaderReadable(f) == f.nchannels # 0 /\ f.sampwidth # 0

\* Wave_read._framesize
FrameSize(f) == f.nchannels * f.sampwidth

\* wav_file.getnframes(): the declared chunk size in whole frames
GetNFrames(f) == f.declared \div FrameSize(f)

\* frame_duration = 1; num_samples = sample_rate * frame_duration
frame_duration == 1
NumSamples(f) == f.framerate * frame_duration

\* Fault injection: a loop over the full chunks only, range(data_size // num_samples)
RangeHasNextFullOnly(f, i) == (i + 1) * NumSamples(f) <= GetNFrames(f)

\* range(0, data_size, num_samples) still has an element after i iterations
RangeHasNext(f, i) == i * NumSamples(f) < GetNFrames(f)

\* wav_file.readframes(num_samples): the number of bytes returned at cursor p
ReadFrames(f, p) == Min(NumSamples(f) * FrameSize(f), f.avail - p)

\* num_frames = len(frames) // 2
NumFrames(nbytes) == nbytes \div 2

\* samples_per_channel = num_frames // channels
SamplesPerChannel(f, nbytes) == NumFrames(nbytes) \div f.nchannels

\* np.frombuffer(frames, dtype=np.int16) needs a whole number of int16;
\* np.copyto(audio_data, buffer_aux) needs equal sizes, or a source of one
\* element, which numpy broadcasts to the destination (here of size zero)
BufferFits(f, nbytes) ==
    /\ nbytes % 2 = 0
    /\ \/ NumFrames(nbytes) = f.nchannels * SamplesPerChannel(f, nbytes)
       \/ NumFrames(nbytes) = 1

Call(op, spc) == [op |-> op, spc |-> spc]

(***************************************************************************)
(* Leaving the with block.                                                 *)
(***************************************************************************)
\* Fault injection: the file opened without a with block, so that an
\* exception leaves it open
RaiseNoClose(exc) ==
    /\ handle' = handle
    /\ outcome' = exc
    /\ pc' = "done"

\* an exception leaves the with block: Wave_read.__exit__ closes the file
Raise(exc) ==
    /\ handle' = "closed"
    /\ outcome' = exc
    /\ pc' = "done"

\* falling off the end of the with block
Return ==
    /\ handle' = "closed"
    /\ outcome' = "return"
    /\ pc' = "done"

(***************************************************************************)
(* play_audio_file                                                         *)
(***************************************************************************)
\* wave.open fails: the with block is never entered
OpenFail ==
    /\ pc = "start"
    /\ ~HeaderReadable(file)
    /\ outcome' = "wave.Error"
    /\ pc' = "done"
    /\ UNCHANGED <<msgVars, file, handle, pos, iter, calls, logged>>

\* lines 259-268: open, read the header, create source and track, publish
OpenOk ==
    /\ pc = "start"
    /\ HeaderReadable(file)
    /\ handle' = "open"
    /\ calls' = Append(calls, Call("publish_track", 0))
    /\ pc' = "publish"
    /\ UNCHANGED <<msgVars, file, pos, iter, logged, outcome>>

\* after the loop: await source.wait_for_playout()
StartWait ==
    /\ calls' = Append(calls, Call("wait_for_playout", 0))
    /\ pc' = "wait"
    /\ UNCHANGED <<msgVars, file, handle, pos, iter, logged, outcome>>

\* await source.aclose()
StartClose ==
    /\ calls' = Append(calls, Call("aclose", 0))
    /\ pc' = "aclose"

PublishTrackOk ==
    /\ pc = "publish"
    /\ pc' = "loop"
    /\ UNCHANGED <<msgVars, file, handle, pos, iter, calls, logged, outcome>>

PublishTrackFail ==
    /\ pc = "publish"
    /\ Raise("SinkError")
    /\ UNCHANGED <<msgVars, file, pos, iter, calls, logged>>

\* range(0, data_size, 0) raises ValueError
RangeError ==
    /\ pc = "loop"
    /\ NumSamples(file) = 0
    /\ Raise("ValueError")
    /\ UNCHANGED <<msgVars, file, pos, iter, calls, logged>>

\* Fault injection: an early return when the file holds no frame
LoopExitEarlyReturn ==
    /\ pc = "loop"
    /\ NumSamples(file) # 0
    /\ ~RangeHasNext(file, iter)
    /\ IF GetNFrames(file) = 0
       THEN Return /\ UNCHANGED <<msgVars, file, pos, iter, calls, logged>>
       ELSE StartWait

\* the range is exhausted
LoopExit ==
    /\ pc = "loop"
    /\ NumSamples(file) # 0
    /\ ~RangeHasNext(file, iter)
    /\ StartWait

\* readframes fails on the underlying file
ReadError ==
    /\ pc = "loop"
    /\ NumSamples(file) # 0
    /\ RangeHasNext(file, iter)
    /\ Raise("OSError")
    /\ UNCHANGED <<msgVars, file, pos, iter, calls, logged>>

\* if not frames: break
ReadEmpty ==
    /\ pc = "loop"
    /\ NumSamples(file) # 0
    /\ RangeHasNext(file, iter)
    /\ ReadFrames(file, pos) = 0
    /\ StartWait

\* np.frombuffer or np.copyto raises ValueError
BadBuffer ==
    /\ pc = "loop"
    /\ NumSamples(file) # 0
    /\ RangeHasNext(file, iter)
    /\ ReadFrames(file, pos) # 0
    /\ ~BufferFits(file, ReadFrames(file, pos))
    /\ Raise("ValueError")
    /\ pos' = pos + ReadFrames(file, pos)
    /\ UNCHANGED <<msgVars, file, iter, calls, logged>>

\* lines 274-296: read a chunk, build the frame, await source.capture_frame
Capture ==
    /\ pc = "loop"
    /\ NumSamples(file) # 0
    /\ RangeHasNext(file, iter)
    /\ ReadFrames(file, pos) # 0
    /\ BufferFits(file, ReadFrames(file, pos))
    /\ pos' = pos + ReadFrames(file, pos)
    /\ calls' = Append(calls, Call("capture_frame",
                                   SamplesPerChannel(file, ReadFrames(file, pos))))
    /\ pc' = "capture"
    /\ UNCHANGED <<msgVars, file, handle, iter, logged, outcome>>

CaptureOk ==
    /\ pc = "capture"
    /\ iter' = iter + 1
    /\ pc' = "loop"
    /\ UNCHANGED <<msgVars, file, handle, pos, calls, logged, outcome>>

CaptureFail ==
    /\ pc = "capture"
    /\ Raise("SinkError")
    /\ UNCHANGED <<msgVars, file, pos, iter, calls, logged>>

WaitOk ==
    /\ pc = "wait"
    /\ StartClose
    /\ UNCHANGED <<msgVars, file, handle, pos, iter, logged, outcome>>

\* Fault injection: the except clause logs and re-raises
WaitFailRaises ==
    /\ pc = "wait"
    /\ logged' = logged \cup {"wait_for_playout"}
    /\ Raise("SinkError")
    /\ UNCHANGED <<msgVars, file, pos, iter, calls>>

\* except Exception: logger.error("Error waiting for playout")
WaitFail ==
    /\ pc = "wait"
    /\ logged' = logged \cup {"wait_for_playout"}
    /\ StartClose
    /\ UNCHANGED <<msgVars, file, handle, pos, iter, outcome>>

AcloseOk ==
    /\ pc = "aclose"
    /\ Return
    /\ UNCHANGED <<msgVars, file, pos, iter, calls, logged>>

\* except Exception: logger.error("Error closing source")
AcloseFail ==
    /\ pc = "aclose"
    /\ logged' = logged \cup {"aclose"}
    /\ Return
    /\ UNCHANGED <<msgVars, file, pos, iter, calls>>

\* the caller cancels the task while it is suspended in an await:
\* CancelledError is no Exception, so neither except clause catches it
Cancel ==
    /\ pc \in {"publish", "capture", "wait", "aclose"}
    /\ Raise("CancelledError")
    /\ UNCHANGED <<msgVars, file, pos, iter, calls, logged>>

InitPlay ==
    /\ pc = "start"
    /\ file \in Files
    /\ handle = "unopened"
    /\ pos = 0
    /\ iter = 0
    /\ calls = <<>>
    /\ logged = {}
    /\ outcome = "running"

(***************************************************************************)
(* messaging.py.  Strings of the model hold no character that json.dumps   *)
(* escapes, so the JSON text of a string is the string between quotes and  *)
(* (ensure_ascii) its UTF-8 encoding has one byte per character.           *)
(***************************************************************************)
Events == {"", "call.hangup", "ping"}
Reasons == {"agent_initiated", "user_requested"}
Sources == {"agent", "client"}
GivenIds == {"id-1"}
Uuids == {"uuid-a", "uuid-b"}
Times == 0..MaxTime

\* Optional[...] arguments: None, or a value
None == [some |-> FALSE]
Some(v) == [some |-> TRUE, v |-> v]

\* Optional[Dict]: None, or {"reason": r}
NoData == [kind |-> "None", reason |-> ""]
ReasonData(r) == [kind |-> "dict", reason |-> r]
DataArgs == {NoData} \cup {ReasonData(r) : r \in Reasons}

\* Message(event, data, source, id, timestamp) with __post_init__: uuid and
\* now are what uuid.uuid4() and time.time() return when they are called
Message(event, data, source, idArg, tsArg, uuid, now) ==
    [event |-> event,
     data |-> data,
     source |-> source,
     id |-> IF idArg.some THEN idArg.v ELSE uuid,
     timestamp |-> IF tsArg.some THEN tsArg.v ELSE now]

\* Message.to_dict: dataclasses.asdict
to_dict(m) ==
    [event |-> m.event, data |-> m.data, source |-> m.source, id |-> m.id,
     timestamp |-> m.timestamp]

JsonStr(s) == "\"" \o s \o "\""

JsonData(d) ==
    IF d.kind = "None" THEN "null"
    ELSE "{" \o JsonStr("reason") \o ": " \o JsonStr(d.reason) \o "}"

\* repr of a float with a whole value
JsonFloat(t) == ToString(t) \o ".0"

\* json.dumps of the dict, keys in field order
JsonDumps(d) ==
    "{" \o JsonStr("event") \o ": " \o JsonStr(d.event)
        \o ", " \o JsonStr("data") \o ": " \o JsonData(d.data)
        \o ", " \o JsonStr("source") \o ": " \o JsonStr(d.source)
        \o ", " \o JsonStr("id") \o ": " \o JsonStr(d.id)
        \o ", " \o JsonStr("timestamp") \o ": " \o JsonFloat(d.timestamp)
        \o "}"

\* Message.to_json
to_json(m) == JsonDumps(to_dict(m))

\* str.encode('utf-8'): a bytes object
EncodeUtf8(s) == [bytes |-> s]

\* room.local_participant.publish_data(data_bytes, topic=topic, reliable=reliable)
PublishData(m) ==
    [data |-> EncodeUtf8(to_json(m)), topic |-> m.event, reliable |-> TRUE,
     result |-> "pending"]

NoMsg == Message("", NoData, "", Some(""), Some(0), "", 0)

\* Message(...) called by the application
Construct ==
    /\ mpc = "idle"
    /\ \E event \in Events, data \in DataArgs, source \in Sources,
          idArg \in {None} \cup {Some(i) : i \in GivenIds},
          tsArg \in {None} \cup {Some(t) : t \in Times},
          uuid \in Uuids, now \in Times :
          msg' = Message(event, data, source, idArg, tsArg, uuid, now)
    /\ mpc' = "built"
    /\ UNCHANGED <<playVars, pubs, sends>>

\* HANGUP(reason)
HANGUP ==
    /\ mpc = "idle"
    /\ \E reason \in Reasons, uuid \in Uuids, now \in Times :
          msg' = Message("call.hangup", ReasonData(reason), "agent", None, None,
                         uuid, now)
    /\ mpc' = "built"
    /\ UNCHANGED <<playVars, pubs, sends>>

\* publish(room, msg) up to its await
Publish ==
    /\ mpc = "built"
    /\ Len(pubs) < MaxPublish
    /\ pubs' = Append(pubs, [msg |-> msg, result |-> "pending"])
    /\ sends' = Append(sends, PublishData(msg))
    /\ mpc' = "sending"
    /\ UNCHANGED <<playVars, msg>>

\* publish_data returns: publish returns None
PublishDataOk ==
    /\ mpc = "sending"
    /\ sends' = [sends EXCEPT ![Len(sends)].result = "ok"]
    /\ pubs' = [pubs EXCEPT ![Len(pubs)].result = "return"]
    /\ mpc' = "built"
    /\ UNCHANGED <<playVars, msg>>

\* Fault injection: a failed send is caught and sent once more
PublishDataFailRetry ==
    /\ mpc = "sending"
    /\ sends' = Append([sends EXCEPT ![Len(sends)].result = "fail"],
                       PublishData(msg))
    /\ UNCHANGED <<playVars, mpc, msg, pubs>>

\* publish_data raises: nothing catches it, publish raises it to its caller
PublishDataFail ==
    /\ mpc = "sending"
    /\ sends' = [sends EXCEPT ![Len(sends)].result = "fail"]
    /\ pubs' = [pubs EXCEPT ![Len(pubs)].result = "ChannelError"]
    /\ mpc' = "built"
    /\ UNCHANGED <<playVars, msg>>

MsgIdle ==
    /\ mpc = "off"
    /\ msg = NoMsg
    /\ pubs = <<>>
    /\ sends = <<>>

PlayIdle ==
    /\ pc = "off"
    /\ file = [nchannels |-> 0, framerate |-> 0, sampwidth |-> 0,
               declared |-> 0, avail |-> 0]
    /\ handle = "unopened"
    /\ pos = 0
    /\ iter = 0
    /\ calls = <<>>
    /\ logged = {}
    /\ outcome = "running"

InitMsg ==
    /\ mpc = "idle"
    /\ msg = NoMsg
    /\ pubs = <<>>
    /\ sends = <<>>

Init == InitPlay /\ MsgIdle

Next ==
    \/ OpenFail
    \/ OpenOk
    \/ PublishTrackOk
    \/ PublishTrackFail
    \/ RangeError
    \/ LoopExit
    \/ ReadError
    \/ ReadEmpty
    \/ BadBuffer
    \/ Capture
    \/ CaptureOk
    \/ CaptureFail
    \/ WaitOk
    \/ WaitFail
    \/ AcloseOk
    \/ AcloseFail
    \/ Cancel

Spec == Init /\ [][Next]_vars

InitMessaging == PlayIdle /\ InitMsg

NextMessaging ==
    \/ Construct
    \/ HANGUP
    \/ Publish
    \/ PublishDataOk
    \/ PublishDataFail

SpecMsg == InitMessaging /\ [][NextMessaging]_vars

(***************************************************************************)
(* What the sink saw.                                                      *)
(***************************************************************************)
IsCapture(c) == c.op = "capture_frame"

\* the frames handed to source.capture_frame, in order
Batches == SelectSeq(calls, IsCapture)

RECURSIVE SumSpc(_)
SumSpc(s) == IF s = <<>> THEN 0 ELSE s[1].spc + SumSpc(Tail(s))

Called(op) == \E i \in 1..Len(calls) : calls[i].op = op

LastOp == IF calls = <<>> THEN "none" ELSE calls[Len(calls)].op

\* a 16-bit file with a complete data chunk of whole frames and a sample rate
WellFormed16(f) ==
    /\ HeaderReadable(f)
    /\ f.sampwidth = 2
    /\ f.framerate # 0
    /\ f.avail = f.declared
    /\ f.declared % FrameSize(f) = 0

(***************************************************************************)
(* Claims about play_audio_file.                                           *)
(***************************************************************************)

\* C1: when the second source.capture_frame call raises, no further batch is
\* produced, source.aclose is still invoked, and the caller sees a SinkError.
C1_SecondCaptureFailureStillCloses ==
    (pc = "done" /\ outcome = "SinkError" /\ LastOp = "capture_frame"
        /\ Len(Batches) = 2)
    => (Called("aclose") /\ outcome = "SinkError" /\ Len(Batches) = 2)

\* C2: for a 16-bit file whose data chunk is complete, played to the end with
\* every SDK call accepted, the samples_per_channel of the batches handed to
\* capture_frame add up to the file's sample-frame count (getnframes).
C2_NoSampleDroppedOrDuplicated ==
    (pc = "done" /\ outcome = "return" /\ file.sampwidth = 2
        /\ file.avail = file.declared)
    => SumSpc(Batches) = GetNFrames(file)

\* C2 witness: such a run with at least two batches, the last one partial.
C2_Witness ==
    /\ pc = "done" /\ outcome = "return"
    /\ file.sampwidth = 2 /\ file.avail = file.declared
    /\ Len(Batches) >= 2
    /\ Batches[Len(Batches)].spc < NumSamples(file)

\* C3: in any run, every batch handed to the sink but the last has
\* samples_per_channel equal to the batch size (sample_rate x 1 s), the last
\* has at most the batch size, and no batch has zero sample-frames.
C3_BatchSizes ==
    \A i \in 1..Len(Batches) :
        /\ Batches[i].spc > 0
        /\ Batches[i].spc <= NumSamples(file)
        /\ (i < Len(Batches) => Batches[i].spc = NumSamples(file))

\* C4: for a file of zero sample-frames no batch is ever handed to the sink,
\* and unless publish_track fails or the caller cancels, the call ends having
\* invoked both source.wait_for_playout and source.aclose.
C4_ZeroLengthFile ==
    (HeaderReadable(file) /\ file.framerate # 0 /\ GetNFrames(file) = 0)
    => /\ Batches = <<>>
       /\ (pc = "done" /\ outcome \notin {"SinkError", "CancelledError"})
          => (Called("wait_for_playout") /\ Called("aclose"))

\* C4 witness: a zero-length file played to a normal return.
C4_Witness ==
    /\ pc = "done" /\ outcome = "return"
    /\ HeaderReadable(file) /\ file.framerate # 0 /\ GetNFrames(file) = 0
    /\ calls = <<Call("publish_track", 0), Call("wait_for_playout", 0),
                 Call("aclose", 0)>>

\* C5: when the caller cancels mid-stream (here: while a batch of a
\* well-formed 16-bit file is awaited in capture_frame), the file handle is
\* closed and source.aclose is attempted before the cancellation propagates.
C5_CancelReleases ==
    (pc = "done" /\ outcome = "CancelledError" /\ LastOp = "capture_frame"
        /\ WellFormed16(file))
    => (handle = "closed" /\ Called("aclose"))

\* C6: a failure of wait_for_playout is followed directly by the aclose call,
\* and a failure of wait_for_playout or aclose is not raised: unless the
\* caller cancels, the call returns normally.
C6_DrainFailuresSwallowed ==
    /\ "wait_for_playout" \in logged
        => /\ Len(calls) >= 2
           /\ calls[Len(calls)].op = "aclose"
           /\ calls[Len(calls) - 1].op = "wait_for_playout"
    /\ (pc = "done" /\ logged # {} /\ outcome # "CancelledError")
        => outcome = "return"

\* C6 witness: both wait_for_playout and aclose failed and the call returned.
C6_Witness ==
    /\ pc = "done" /\ outcome = "return"
    /\ logged = {"wait_for_playout", "aclose"}

\* C7: no run ends with the wave file handle still open.
C7_HandleClosedOnEveryExit == pc = "done" => handle # "open"

\* C7 witness: the run ended by a capture_frame failure after an accepted
\* batch, with the handle closed.
C7_Witness ==
    /\ pc = "done" /\ outcome = "SinkError" /\ LastOp = "capture_frame"
    /\ Len(Batches) >= 2
    /\ handle = "closed"

\* C8: a file whose declared sample width is not 16 bits (and that is
\* otherwise well formed) is rejected: none of its data reaches the sink and
\* the call ends in an error (the UnsupportedFormatError of the claim; any
\* exception is accepted here).
C8_RejectsNon16Bit ==
    (HeaderReadable(file) /\ file.sampwidth # 2 /\ file.framerate # 0
        /\ file.avail = file.declared /\ file.declared % FrameSize(file) = 0)
    => /\ Batches = <<>>
       /\ pc = "done" => outcome # "return"

(***************************************************************************)
(* Claims about messaging.py.                                              *)
(***************************************************************************)

\* C9: no Message with an empty event name is ever produced: constructing
\* one fails, so none is built, serialized or published.
C9_EmptyEventRejected ==
    /\ mpc \in {"built", "sending"} => msg.event # ""
    /\ \A i \in 1..Len(pubs) : pubs[i].msg.event # ""

\* C10: every publish(room, msg) call makes exactly one publish_data call,
\* carrying the UTF-8 bytes of msg.to_json() with topic msg.event and
\* reliable=True; a failed send is not retried and ends the publish call
\* with the error raised to its caller.
C10_PublishSendsOnce ==
    /\ Len(sends) = Len(pubs)
    /\ \A i \in 1..Len(sends) :
          /\ sends[i].data = EncodeUtf8(to_json(pubs[i].msg))
          /\ sends[i].topic = pubs[i].msg.event
          /\ sends[i].reliable = TRUE
          /\ sends[i].result = "fail" <=> pubs[i].result = "ChannelError"
          /\ sends[i].result = "ok" <=> pubs[i].result = "return"

\* C10 witness: a hangup message published twice, the first send failing,
\* each send carrying the JSON text of the message.
C10_Witness ==
    /\ Len(pubs) = 2 /\ Len(sends) = 2
    /\ pubs[1].result = "ChannelError" /\ pubs[2].result = "return"
    /\ sends[1].topic = "call.hangup"
    /\ sends[2].data = [bytes |->
          "{\"event\": \"call.hangup\", \"data\": {\"reason\": \"user_requested\"}, \"source\": \"agent\", \"id\": \"uuid-a\", \"timestamp\": 1.0}"]

====
